---- MODULE Spec2Model ----
(***************************************************************************)
(* Nabha Vidya service worker (v2.0): cache partitions, asset preloading,  *)
(* partition cleanup on activation, and the fetch strategies (cache-first, *)
(* network-first, stale-while-revalidate, offline fallback).               *)
(*                                                                         *)
(* Each async function is cut at its suspension points (the awaits); one   *)
(* action is the code between two awaits.  Several handlers may be in      *)
(* flight at once and interleave at those points.                          *)
(***************************************************************************)
EXTENDS Integers, Sequences, FiniteSets, TLC

VARIABLES
  caches,        \* CacheStorage: sequence (creation order) of [name, entries]
  phase,         \* worker lifecycle: parsed/installing/installed/activating/activated
  staticOpened,  \* install: caches.open(STATIC_CACHE) has resolved
  dynamicOpened, \* install: caches.open(DYNAMIC_CACHE) has resolved
  assetPc,       \* install: position of safeCacheAdd for each manifest index
  assetNet,      \* install: what fetch(url) gave for each manifest index
  successful,    \* install: <<n>> once the handler has computed its count, <<>> before
  toDelete,      \* activate: cache names whose caches.delete is outstanding
  preActivate,   \* history: CacheStorage as the activate handler found it
  handler,       \* fetch: one record per in-flight handleFetch / strategy call
  bg,            \* fetch: the detached fetchPromise of staleWhileRevalidate
  fetches,       \* number of fetch events dispatched so far (bounded)
  completedOk,   \* history: keys for which a cacheFirst call returned a 2xx network response
  storageFaulty, \* environment: whether cache.put may reject (quota, etc.)
  queue,         \* sync: the store of pending submissions, in insertion order
  nextId,        \* sync: the id the store gives to the next submission
  sync           \* sync: one record per dispatched sync event

vars == <<caches, phase, staticOpened, dynamicOpened, assetPc, assetNet,
          successful, toDelete, preActivate, handler, bg, fetches,
          completedOk, storageFaulty, queue, nextId, sync>>

syncVars == <<queue, nextId, sync>>

lifecycleVars == <<phase, staticOpened, dynamicOpened, assetPc, assetNet,
                   successful, toDelete, preActivate>>

fetchVars == <<handler, bg, fetches, completedOk>>

(***************************************************************************)
(* Bounds of the model                                                     *)
(***************************************************************************)
ManifestLen == 3
NumBodies == 2
NumHandlers == 2
MaxFetches == 2
MaxQueue == 3
MaxSyncEvents == 2
MaxDeliveries == 3

(***************************************************************************)
(* Program constants                                                       *)
(***************************************************************************)
CACHE_NAME_V1 == "vidya-cache-v1"
STATIC_CACHE == "nabha-static-v2.0"
DYNAMIC_CACHE == "nabha-dynamic-v2.0"
STATIC_ASSETS ==
  << "/", "/index.html", "/student-dashboard.html", "/teacher-dashboard.html",
     "/styles.css", "/script.js", "/manifest.json", "/logo-removebg-preview.png",
     "/assets/icons/icon-192.png", "/assets/icons/icon-512.png" >>
OfflineStatus == 503

\* The manifest prefix the model preloads.
Manifest == SubSeq(STATIC_ASSETS, 1, ManifestLen)

(***************************************************************************)
(* Strings (String.prototype.startsWith / endsWith / includes)             *)
(***************************************************************************)
StartsWith(s, p) == Len(s) >= Len(p) /\ SubSeq(s, 1, Len(p)) = p
EndsWith(s, p) == Len(s) >= Len(p) /\ SubSeq(s, Len(s) - Len(p) + 1, Len(s)) = p
Includes(s, p) == \E i \in 1..(Len(s) - Len(p) + 1) : SubSeq(s, i, i + Len(p) - 1) = p

(***************************************************************************)
(* Responses and the network                                               *)
(***************************************************************************)
\* Values a handler can hold: a response, undefined, or a thrown failure.
Undefined == [kind |-> "undefined"]
Throw == [kind |-> "throw"]
Bodies == { "v" \o ToString(i) : i \in 1..NumBodies }
Response(status, body) == [kind |-> "response", status |-> status, body |-> body]
\* What fetch() can give: a response (2xx or not) or a thrown failure.
NetResponses == { Response(200, b) : b \in Bodies } \cup { Response(404, "Not Found") }
NetOutcomes == NetResponses \cup {Throw}
IsResponse(v) == v.kind = "response"
\* Response.ok
Ok(r) == r.status \in 200..299
\* new Response(JSON.stringify({error: 'Offline', ...}), {status: 503, ...})
OfflineResponse == Response(OfflineStatus, "Offline")
\* cache.put resolves, or rejects when the storage is faulty.
PutOutcomes == IF storageFaulty THEN {"ok", "fail"} ELSE {"ok"}

(***************************************************************************)
(* CacheStorage (caches.open / keys / delete / match, cache.match / put)   *)
(***************************************************************************)
EmptyEntries == [k \in {} |-> Undefined]
CacheNames(cs) == { cs[i].name : i \in DOMAIN cs }
CachesKeys(cs) == [i \in DOMAIN cs |-> cs[i].name]
CachesOpen(cs, name) ==
  IF name \in CacheNames(cs) THEN cs
  ELSE Append(cs, [name |-> name, entries |-> EmptyEntries])
CachesDelete(cs, name) == SelectSeq(cs, LAMBDA c : c.name # name)
EntriesOf(cs, name) ==
  IF name \in CacheNames(cs)
  THEN (CHOOSE c \in { cs[i] : i \in DOMAIN cs } : c.name = name).entries
  ELSE EmptyEntries
CacheMatch(cs, name, key) ==
  IF key \in DOMAIN EntriesOf(cs, name) THEN EntriesOf(cs, name)[key] ELSE Undefined
\* Mutant of PutEntry: an existing entry is kept, the new response dropped.
PutEntry_KeepFirst(e, key, resp) ==
  [k \in DOMAIN e \cup {key} |-> IF k \in DOMAIN e THEN e[k] ELSE resp]

\* cache.put(key, resp): the entry of that key is replaced, the others kept.
PutEntry(e, key, resp) ==
  [k \in DOMAIN e \cup {key} |-> IF k = key THEN resp ELSE e[k]]
CachePut(cs, name, key, resp) ==
  [i \in DOMAIN cs |->
     IF cs[i].name = name
     THEN [cs[i] EXCEPT !.entries = PutEntry(cs[i].entries, key, resp)]
     ELSE cs[i]]
\* caches.match(request): the first cache, in creation order, that holds the key.
CachesMatch(cs, key) ==
  LET hits == { i \in DOMAIN cs : key \in DOMAIN cs[i].entries }
  IN IF hits = {} THEN Undefined
     ELSE cs[CHOOSE i \in hits : \A j \in hits : i <= j].entries[key]

(***************************************************************************)
(* What CacheStorage may hold before this worker is installed: caches of   *)
(* the v1 worker, of an earlier nabha- revision, and of another consumer.  *)
(***************************************************************************)
PriorNames == << CACHE_NAME_V1, "nabha-static-v1.0", "other-app-cache" >>
PriorEntries == [k \in {"/index.html"} |-> Response(200, "old")]
PriorStorages ==
  { SelectSeq([i \in DOMAIN PriorNames |->
                 [name |-> PriorNames[i], entries |-> PriorEntries]],
              LAMBDA c : c.name \in S) :
    S \in SUBSET { PriorNames[i] : i \in DOMAIN PriorNames } }

(***************************************************************************)
(* Requests and the state of one fetch handler                             *)
(***************************************************************************)
Handlers == 1..NumHandlers
Request(path, mode, method, protocol) ==
  [path |-> path, mode |-> mode, method |-> method, protocol |-> protocol]
NoRequest == Request("", "", "", "")
\* pc: the await the call is suspended at; cached/net: the locals
\* cachedResponse/networkResponse; result: what respondWith receives;
\* thrown: a strategy failed into the catch of handleFetch; calls: fetch()
\* invocations made for this call; afterOk (history): the event came after a
\* cacheFirst call for the same request had returned a 2xx network response.
IdleHandler ==
  [pc |-> "idle", req |-> NoRequest, fn |-> "none", cacheName |-> "",
   cached |-> Undefined, net |-> Undefined, result |-> Undefined,
   thrown |-> FALSE, calls |-> 0, afterOk |-> FALSE]
NoHandlers == [h \in Handlers |-> IdleHandler]
\* The detached fetchPromise of staleWhileRevalidate.
IdleBackground == [state |-> "idle", net |-> Undefined]
NoBackground == [h \in Handlers |-> IdleBackground]

(***************************************************************************)
(* Background sync: the pending submissions and the state of one run of    *)
(* syncFeedbackSubmissions                                                 *)
(***************************************************************************)
SyncEvents == 1..MaxSyncEvents
\* (after: history, the events whose run had ended when this one was dispatched)
IdleSync ==
  [pc |-> "idle", tag |-> "", pending |-> <<>>, idx |-> 0, log |-> <<>>, after |-> {}]
NoSync == [e \in SyncEvents |-> IdleSync]
InitSync ==
  /\ queue = <<>>
  /\ nextId = 1
  /\ sync = NoSync

(***************************************************************************)
(* install: safeCacheAdd over the manifest, and the dynamic cache          *)
(***************************************************************************)
AssetIdx == 1..ManifestLen

\* self.addEventListener("install", ...): both caches.open calls are issued.
InstallEvent ==
  /\ phase = "parsed"
  /\ phase' = "installing"
  /\ UNCHANGED <<caches, staticOpened, dynamicOpened, assetPc, assetNet,
                 successful, toDelete, preActivate, fetchVars, storageFaulty, syncVars>>

\* caches.open(STATIC_CACHE) resolves; STATIC_ASSETS.map starts every
\* safeCacheAdd, each running up to its await fetch(url).
InstallOpenStatic ==
  /\ phase = "installing"
  /\ ~staticOpened
  /\ caches' = CachesOpen(caches, STATIC_CACHE)
  /\ staticOpened' = TRUE
  /\ assetPc' = [i \in AssetIdx |-> "fetch"]
  /\ UNCHANGED <<phase, dynamicOpened, assetNet, successful, toDelete,
                 preActivate, fetchVars, storageFaulty, syncVars>>

\* caches.open(DYNAMIC_CACHE) resolves.
InstallOpenDynamic ==
  /\ phase = "installing"
  /\ ~dynamicOpened
  /\ caches' = CachesOpen(caches, DYNAMIC_CACHE)
  /\ dynamicOpened' = TRUE
  /\ UNCHANGED <<phase, staticOpened, assetPc, assetNet, successful, toDelete,
                 preActivate, fetchVars, storageFaulty, syncVars>>

\* Mutant of AfterAssetFetch: the response.ok test is dropped.
AfterAssetFetch_NoOkTest(out) ==
  IF IsResponse(out) THEN "put" ELSE "false"

\* safeCacheAdd: where the call stands once fetch(url) has given `out`:
\* a thrown fetch and a non-ok response both end in the catch (return false).
AfterAssetFetch(out) ==
  IF IsResponse(out) /\ Ok(out) THEN "put" ELSE "false"

\* safeCacheAdd: await fetch(url, {cache: "no-cache"}) settles.
SafeCacheAddFetch(i) ==
  /\ phase = "installing"
  /\ assetPc[i] = "fetch"
  /\ \E out \in NetOutcomes :
       /\ assetNet' = [assetNet EXCEPT ![i] = out]
       /\ assetPc' = [assetPc EXCEPT ![i] = AfterAssetFetch(out)]
  /\ UNCHANGED <<caches, phase, staticOpened, dynamicOpened, successful,
                 toDelete, preActivate, fetchVars, storageFaulty, syncVars>>

\* safeCacheAdd: await cache.put(url, response.clone()) settles.
SafeCacheAddPut(i) ==
  /\ phase = "installing"
  /\ assetPc[i] = "put"
  /\ \E po \in PutOutcomes :
       IF po = "ok"
       THEN /\ caches' = CachePut(caches, STATIC_CACHE, Manifest[i], assetNet[i])
            /\ assetPc' = [assetPc EXCEPT ![i] = "true"]
       ELSE /\ caches' = caches
            /\ assetPc' = [assetPc EXCEPT ![i] = "false"]
  /\ UNCHANGED <<phase, staticOpened, dynamicOpened, assetNet, successful,
                 toDelete, preActivate, fetchVars, storageFaulty, syncVars>>

\* results.filter(r => r.status === 'fulfilled').length: safeCacheAdd never
\* rejects, so every settled result is 'fulfilled', whatever it returned.
CountFulfilled(pcs) == Cardinality({ i \in DOMAIN pcs : pcs[i] \in {"true", "false"} })

\* Promise.allSettled resolves and the handler computes `successful`.
InstallStaticSettled ==
  /\ phase = "installing"
  /\ staticOpened
  /\ successful = <<>>
  /\ \A i \in AssetIdx : assetPc[i] \in {"true", "false"}
  /\ successful' = << CountFulfilled(assetPc) >>
  /\ UNCHANGED <<caches, phase, staticOpened, dynamicOpened, assetPc, assetNet,
                 toDelete, preActivate, fetchVars, storageFaulty, syncVars>>

\* The outer Promise.all resolves: event.waitUntil is satisfied.
InstallDone ==
  /\ phase = "installing"
  /\ successful # <<>>
  /\ dynamicOpened
  /\ phase' = "installed"
  /\ UNCHANGED <<caches, staticOpened, dynamicOpened, assetPc, assetNet,
                 successful, toDelete, preActivate, fetchVars, storageFaulty, syncVars>>

(***************************************************************************)
(* activate: delete old caches                                             *)
(***************************************************************************)
\* Mutant of IsOldCache: the filter of the v1 worker (no prefix test).
IsOldCache_NoPrefix(cacheName) ==
  /\ cacheName # STATIC_CACHE
  /\ cacheName # DYNAMIC_CACHE

\* The filter of the activate handler.
IsOldCache(cacheName) ==
  /\ cacheName # STATIC_CACHE
  /\ cacheName # DYNAMIC_CACHE
  /\ StartsWith(cacheName, "nabha-")

\* caches.keys() resolves; every caches.delete of the filtered names is issued.
ActivateEvent ==
  /\ phase = "installed"
  /\ phase' = "activating"
  /\ preActivate' = caches
  /\ toDelete' = { n \in CacheNames(caches) : IsOldCache(n) }
  /\ UNCHANGED <<caches, staticOpened, dynamicOpened, assetPc, assetNet,
                 successful, fetchVars, storageFaulty, syncVars>>

\* One caches.delete(cacheName) completes.
ActivateDelete(n) ==
  /\ phase = "activating"
  /\ n \in toDelete
  /\ caches' = CachesDelete(caches, n)
  /\ toDelete' = toDelete \ {n}
  /\ UNCHANGED <<phase, staticOpened, dynamicOpened, assetPc, assetNet,
                 successful, preActivate, fetchVars, storageFaulty, syncVars>>

\* Promise.all of the deletions (and clients.claim) resolves.
ActivateDone ==
  /\ phase = "activating"
  /\ toDelete = {}
  /\ phase' = "activated"
  /\ UNCHANGED <<caches, staticOpened, dynamicOpened, assetPc, assetNet,
                 successful, toDelete, preActivate, fetchVars, storageFaulty, syncVars>>

(***************************************************************************)
(* SpecLifecycle: a fresh installation of this worker over whatever        *)
(* CacheStorage already holds, up to the end of activation.                *)
(***************************************************************************)
InitLifecycle ==
  /\ caches \in PriorStorages
  /\ phase = "parsed"
  /\ staticOpened = FALSE
  /\ dynamicOpened = FALSE
  /\ assetPc = [i \in AssetIdx |-> "idle"]
  /\ assetNet = [i \in AssetIdx |-> Undefined]
  /\ successful = <<>>
  /\ toDelete = {}
  /\ preActivate = <<>>
  /\ handler = NoHandlers
  /\ bg = NoBackground
  /\ fetches = 0
  /\ completedOk = {}
  /\ storageFaulty = FALSE
  /\ InitSync

NextLifecycle ==
  \/ InstallEvent
  \/ InstallOpenStatic
  \/ InstallOpenDynamic
  \/ \E i \in AssetIdx : SafeCacheAddFetch(i)
  \/ \E i \in AssetIdx : SafeCacheAddPut(i)
  \/ InstallStaticSettled
  \/ InstallDone
  \/ ActivateEvent
  \/ \E n \in toDelete : ActivateDelete(n)
  \/ ActivateDone

SpecLifecycle == InitLifecycle /\ [][NextLifecycle]_vars

(***************************************************************************)
(* Strategy selection (handleFetch, isStaticAsset, isDynamicAsset)         *)
(***************************************************************************)
\* The alternatives of /\.(css|js|png|jpg|jpeg|gif|ico|svg|woff|woff2|ttf|eot)$/
StaticExtensions ==
  << "css", "js", "png", "jpg", "jpeg", "gif", "ico", "svg",
     "woff", "woff2", "ttf", "eot" >>

isStaticAsset(pathname) ==
  \/ \E i \in DOMAIN StaticExtensions : EndsWith(pathname, "." \o StaticExtensions[i])
  \/ pathname = "/"
  \/ EndsWith(pathname, ".html")

isDynamicAsset(pathname) ==
  \/ StartsWith(pathname, "/assets/videos/")
  \/ Includes(pathname, "api")
  \/ Includes(pathname, "user-content")

Policy(fn, cacheName) == [fn |-> fn, cacheName |-> cacheName]

\* Mutant of StrategyOf: the '/api/' test is made before isDynamicAsset.
StrategyOf_ApiFirst(pathname) ==
  IF isStaticAsset(pathname) THEN Policy("cacheFirst", STATIC_CACHE)
  ELSE IF StartsWith(pathname, "/api/") THEN Policy("staleWhileRevalidate", DYNAMIC_CACHE)
  ELSE IF isDynamicAsset(pathname) THEN Policy("networkFirst", DYNAMIC_CACHE)
  ELSE Policy("networkFirst", DYNAMIC_CACHE)

\* The if-chain in the try block of handleFetch.
StrategyOf(pathname) ==
  IF isStaticAsset(pathname) THEN Policy("cacheFirst", STATIC_CACHE)
  ELSE IF isDynamicAsset(pathname) THEN Policy("networkFirst", DYNAMIC_CACHE)
  ELSE IF StartsWith(pathname, "/api/") THEN Policy("staleWhileRevalidate", DYNAMIC_CACHE)
  ELSE Policy("networkFirst", DYNAMIC_CACHE)

(***************************************************************************)
(* The strategies, as transitions of one handler's record                  *)
(***************************************************************************)
\* `return v` out of handleFetch: respondWith receives v.
Returned(rec, v) == [rec EXCEPT !.pc = "done", !.result = v]

\* Mutant of Failed: the fallback skips the navigation branch.
Failed_NoNavigation(rec) ==
  [rec EXCEPT !.thrown = TRUE, !.pc = "fb_all"]

\* A strategy threw: the catch of handleFetch calls handleOfflineFallback,
\* which runs to its first await (caches.open for a navigation, else
\* caches.match).
Failed(rec) ==
  [rec EXCEPT !.thrown = TRUE,
              !.pc = IF rec.req.mode = "navigate" THEN "fb_open" ELSE "fb_all"]

\* A strategy function called: it runs to its await caches.open(cacheName).
Called(req, policy, afterOk) ==
  [IdleHandler EXCEPT !.pc = "open", !.req = req, !.fn = policy.fn,
                      !.cacheName = policy.cacheName, !.afterOk = afterOk]

\* Mutant of PassedThrough: the listener answers the event all the same.
PassedThrough_Answered(req) ==
  [IdleHandler EXCEPT !.pc = "open", !.req = req, !.fn = "networkFirst",
                      !.cacheName = DYNAMIC_CACHE]

\* The fetch event was not answered (the listener returned early).
PassedThrough(req) ==
  [IdleHandler EXCEPT !.pc = "done", !.req = req, !.fn = "passthrough"]

\* After caches.open: cacheFirst and staleWhileRevalidate await cache.match,
\* networkFirst calls fetch.
AfterOpen(rec) ==
  IF rec.fn = "cacheFirst" THEN [rec EXCEPT !.pc = "cf_match"]
  ELSE IF rec.fn = "networkFirst"
       THEN [rec EXCEPT !.pc = "nf_fetch", !.calls = @ + 1]
       ELSE [rec EXCEPT !.pc = "swr_match"]

\* Mutant of CfAfterMatch: the hit is ignored and the network is asked anyway.
CfAfterMatch_AlwaysFetch(rec, cachedResponse) ==
  [rec EXCEPT !.cached = cachedResponse, !.pc = "cf_fetch", !.calls = @ + 1]

\* cacheFirst after cache.match: a hit returns, a miss calls fetch.
CfAfterMatch(rec, cachedResponse) ==
  IF IsResponse(cachedResponse)
  THEN Returned([rec EXCEPT !.cached = cachedResponse], cachedResponse)
  ELSE [rec EXCEPT !.cached = cachedResponse, !.pc = "cf_fetch", !.calls = @ + 1]

\* cacheFirst after fetch: ok goes on to cache.put, not ok returns the
\* response, a thrown fetch leaves the function.
\* Mutant of CfAfterFetch: any response is stored, whatever its status.
CfAfterFetch_NoOkTest(rec, out) ==
  IF out.kind = "throw" THEN Failed([rec EXCEPT !.net = out])
  ELSE [rec EXCEPT !.net = out, !.pc = "cf_put"]

CfAfterFetch(rec, out) ==
  IF out.kind = "throw" THEN Failed([rec EXCEPT !.net = out])
  ELSE IF Ok(out) THEN [rec EXCEPT !.net = out, !.pc = "cf_put"]
  ELSE Returned([rec EXCEPT !.net = out], out)

\* cacheFirst after cache.put: return networkResponse; a rejected put throws.
CfAfterPut(rec, po) ==
  IF po = "ok" THEN Returned(rec, rec.net) ELSE Failed(rec)

\* Mutant of NfAfterFetch: an ok response is returned without being stored.
NfAfterFetch_NoStore(rec, out) ==
  IF out.kind = "throw" THEN [rec EXCEPT !.net = out, !.pc = "nf_match"]
  ELSE Returned([rec EXCEPT !.net = out], out)

\* networkFirst after fetch: a thrown fetch enters the catch (cache.match).
NfAfterFetch(rec, out) ==
  IF out.kind = "throw" THEN [rec EXCEPT !.net = out, !.pc = "nf_match"]
  ELSE IF Ok(out) THEN [rec EXCEPT !.net = out, !.pc = "nf_put"]
  ELSE Returned([rec EXCEPT !.net = out], out)

\* networkFirst after cache.put: the put is inside the try, so a rejected
\* put enters the catch as well.
NfAfterPut(rec, po) ==
  IF po = "ok" THEN Returned(rec, rec.net) ELSE [rec EXCEPT !.pc = "nf_match"]

\* Mutant of NfAfterMatch: the catch returns cachedResponse without testing it.
NfAfterMatch_NoRethrow(rec, cachedResponse) ==
  Returned([rec EXCEPT !.cached = cachedResponse], cachedResponse)

\* networkFirst, catch block after cache.match: return the entry or rethrow.
NfAfterMatch(rec, cachedResponse) ==
  IF IsResponse(cachedResponse)
  THEN Returned([rec EXCEPT !.cached = cachedResponse], cachedResponse)
  ELSE Failed([rec EXCEPT !.cached = cachedResponse])

\* handleOfflineFallback after cache.match('/index.html').
FbAfterIndex(rec, fallback) ==
  IF IsResponse(fallback) THEN Returned(rec, fallback)
  ELSE [rec EXCEPT !.pc = "fb_all"]

\* handleOfflineFallback after caches.match(request).
FbAfterAll(rec, cachedResponse) ==
  IF IsResponse(cachedResponse) THEN Returned(rec, cachedResponse)
  ELSE Returned(rec, OfflineResponse)

\* Mutant of SwrAfterMatch: the call awaits fetchPromise even on a hit.
SwrAfterMatch_Blocking(rec, cachedResponse) ==
  [rec EXCEPT !.cached = cachedResponse, !.calls = @ + 1, !.pc = "swr_wait"]

\* staleWhileRevalidate after cache.match: fetch is called in any case; a
\* hit returns at once, a miss awaits fetchPromise.
SwrAfterMatch(rec, cachedResponse) ==
  IF IsResponse(cachedResponse)
  THEN Returned([rec EXCEPT !.cached = cachedResponse, !.calls = @ + 1], cachedResponse)
  ELSE [rec EXCEPT !.cached = cachedResponse, !.calls = @ + 1, !.pc = "swr_wait"]

\* What fetchPromise resolves to: the response from .then, or undefined
\* from the .catch that only logs.
FetchPromiseValue(out) == IF out.kind = "throw" THEN Undefined ELSE out

\* The .then callback: cache.put is called (not awaited) for an ok response.
BgAfterFetch(out) ==
  IF IsResponse(out) /\ Ok(out)
  THEN [state |-> "putting", net |-> out]
  ELSE [state |-> "settled", net |-> out]

\* `return await fetchPromise` of a call that is waiting for it.
SwrAfterPromise(rec, out) ==
  IF rec.pc = "swr_wait"
  THEN Returned([rec EXCEPT !.net = out], FetchPromiseValue(out))
  ELSE rec

(***************************************************************************)
(* The fetch listener and the steps of the handlers                        *)
(***************************************************************************)
\* A slot is free when its call has ended and its fetchPromise has settled.
Free(h) ==
  /\ handler[h].pc \in {"idle", "done"}
  /\ bg[h].state \in {"idle", "settled"}

\* self.addEventListener("fetch", ...): early return for non-GET and for
\* non-http schemes, otherwise respondWith(handleFetch(request)).
FetchEvent(h, req) ==
  /\ phase = "activated"
  /\ fetches < MaxFetches
  /\ Free(h)
  /\ fetches' = fetches + 1
  /\ handler' = [handler EXCEPT ![h] =
       IF req.method # "GET" THEN PassedThrough(req)
       ELSE IF ~StartsWith(req.protocol, "http") THEN PassedThrough(req)
       ELSE Called(req, StrategyOf(req.path), req.path \in completedOk)]
  /\ bg' = [bg EXCEPT ![h] = IdleBackground]
  /\ UNCHANGED <<caches, lifecycleVars, completedOk, storageFaulty, syncVars>>

\* await caches.open(cacheName) of any strategy.
StrategyOpen(h) ==
  /\ handler[h].pc = "open"
  /\ caches' = CachesOpen(caches, handler[h].cacheName)
  /\ handler' = [handler EXCEPT ![h] = AfterOpen(@)]
  /\ UNCHANGED <<lifecycleVars, bg, fetches, completedOk, storageFaulty, syncVars>>

CfMatch(h) ==
  /\ handler[h].pc = "cf_match"
  /\ handler' = [handler EXCEPT ![h] =
       CfAfterMatch(@, CacheMatch(caches, @.cacheName, @.req.path))]
  /\ UNCHANGED <<caches, lifecycleVars, bg, fetches, completedOk, storageFaulty, syncVars>>

CfFetch(h) ==
  /\ handler[h].pc = "cf_fetch"
  /\ \E out \in NetOutcomes : handler' = [handler EXCEPT ![h] = CfAfterFetch(@, out)]
  /\ UNCHANGED <<caches, lifecycleVars, bg, fetches, completedOk, storageFaulty, syncVars>>

CfPut(h) ==
  /\ handler[h].pc = "cf_put"
  /\ \E po \in PutOutcomes :
       /\ handler' = [handler EXCEPT ![h] = CfAfterPut(@, po)]
       /\ caches' = IF po = "ok"
                    THEN CachePut(caches, handler[h].cacheName, handler[h].req.path,
                                  handler[h].net)
                    ELSE caches
       /\ completedOk' = IF po = "ok" THEN completedOk \cup {handler[h].req.path}
                         ELSE completedOk
  /\ UNCHANGED <<lifecycleVars, bg, fetches, storageFaulty, syncVars>>

NfFetch(h) ==
  /\ handler[h].pc = "nf_fetch"
  /\ \E out \in NetOutcomes : handler' = [handler EXCEPT ![h] = NfAfterFetch(@, out)]
  /\ UNCHANGED <<caches, lifecycleVars, bg, fetches, completedOk, storageFaulty, syncVars>>

NfPut(h) ==
  /\ handler[h].pc = "nf_put"
  /\ \E po \in PutOutcomes :
       /\ handler' = [handler EXCEPT ![h] = NfAfterPut(@, po)]
       /\ caches' = IF po = "ok"
                    THEN CachePut(caches, handler[h].cacheName, handler[h].req.path,
                                  handler[h].net)
                    ELSE caches
  /\ UNCHANGED <<lifecycleVars, bg, fetches, completedOk, storageFaulty, syncVars>>

NfMatch(h) ==
  /\ handler[h].pc = "nf_match"
  /\ handler' = [handler EXCEPT ![h] =
       NfAfterMatch(@, CacheMatch(caches, @.cacheName, @.req.path))]
  /\ UNCHANGED <<caches, lifecycleVars, bg, fetches, completedOk, storageFaulty, syncVars>>

\* handleOfflineFallback, navigation: await caches.open(STATIC_CACHE).
FbOpen(h) ==
  /\ handler[h].pc = "fb_open"
  /\ caches' = CachesOpen(caches, STATIC_CACHE)
  /\ handler' = [handler EXCEPT ![h].pc = "fb_match"]
  /\ UNCHANGED <<lifecycleVars, bg, fetches, completedOk, storageFaulty, syncVars>>

\* handleOfflineFallback, navigation: await cache.match('/index.html').
FbMatch(h) ==
  /\ handler[h].pc = "fb_match"
  /\ handler' = [handler EXCEPT ![h] =
       FbAfterIndex(@, CacheMatch(caches, STATIC_CACHE, "/index.html"))]
  /\ UNCHANGED <<caches, lifecycleVars, bg, fetches, completedOk, storageFaulty, syncVars>>

\* handleOfflineFallback: await caches.match(request), then the 503.
FbAll(h) ==
  /\ handler[h].pc = "fb_all"
  /\ handler' = [handler EXCEPT ![h] = FbAfterAll(@, CachesMatch(caches, @.req.path))]
  /\ UNCHANGED <<caches, lifecycleVars, bg, fetches, completedOk, storageFaulty, syncVars>>

\* staleWhileRevalidate: await cache.match, then fetch(request) is called.
SwrMatch(h) ==
  /\ handler[h].pc = "swr_match"
  /\ handler' = [handler EXCEPT ![h] =
       SwrAfterMatch(@, CacheMatch(caches, @.cacheName, @.req.path))]
  /\ bg' = [bg EXCEPT ![h] = [state |-> "fetching", net |-> Undefined]]
  /\ UNCHANGED <<caches, lifecycleVars, fetches, completedOk, storageFaulty, syncVars>>

\* staleWhileRevalidate: fetch(request) settles; .then/.catch run and
\* fetchPromise resolves.
BgFetch(h) ==
  /\ bg[h].state = "fetching"
  /\ \E out \in NetOutcomes :
       /\ bg' = [bg EXCEPT ![h] = BgAfterFetch(out)]
       /\ handler' = [handler EXCEPT ![h] = SwrAfterPromise(@, out)]
  /\ UNCHANGED <<caches, lifecycleVars, fetches, completedOk, storageFaulty, syncVars>>

\* staleWhileRevalidate: the cache.put nobody awaits completes (or rejects).
BgPut(h) ==
  /\ bg[h].state = "putting"
  /\ \E po \in PutOutcomes :
       caches' = IF po = "ok"
                 THEN CachePut(caches, handler[h].cacheName, handler[h].req.path,
                               bg[h].net)
                 ELSE caches
  /\ bg' = [bg EXCEPT ![h].state = "settled"]
  /\ UNCHANGED <<lifecycleVars, handler, fetches, completedOk, storageFaulty, syncVars>>

\* The steps handleFetch can take (staleWhileRevalidate is never selected by
\* StrategyOf: every path that starts with '/api/' includes 'api').
HandlerStep(h) ==
  \/ StrategyOpen(h)
  \/ CfMatch(h)
  \/ CfFetch(h)
  \/ CfPut(h)
  \/ NfFetch(h)
  \/ NfPut(h)
  \/ NfMatch(h)
  \/ FbOpen(h)
  \/ FbMatch(h)
  \/ FbAll(h)

(***************************************************************************)
(* Spec: the activated worker answering fetch events                       *)
(***************************************************************************)
\* CacheStorage once this worker is activated: what activation leaves of the
\* prior caches, then the two current caches; the static one holds what the
\* preload stored.
Survivors == { <<>>, << [name |-> CACHE_NAME_V1, entries |-> PriorEntries] >> }
Preloaded == { EmptyEntries, [k \in {"/index.html"} |-> Response(200, "v1")] }
ActivatedStorages ==
  { sv \o << [name |-> STATIC_CACHE, entries |-> pre],
             [name |-> DYNAMIC_CACHE, entries |-> EmptyEntries] >> :
    sv \in Survivors, pre \in Preloaded }

InitActivated ==
  /\ caches \in ActivatedStorages
  /\ phase = "activated"
  /\ staticOpened = TRUE
  /\ dynamicOpened = TRUE
  /\ assetNet = [i \in AssetIdx |->
                   IF Manifest[i] \in DOMAIN EntriesOf(caches, STATIC_CACHE)
                   THEN CacheMatch(caches, STATIC_CACHE, Manifest[i])
                   ELSE Throw]
  /\ assetPc = [i \in AssetIdx |->
                  IF IsResponse(assetNet[i]) THEN "true" ELSE "false"]
  /\ successful = << ManifestLen >>
  /\ toDelete = {}
  /\ preActivate = caches
  /\ handler = NoHandlers
  /\ bg = NoBackground
  /\ fetches = 0
  /\ completedOk = {}
  /\ InitSync

\* The requests the controlled pages make.
Requests ==
  { Request("/index.html", "navigate", "GET", "https:"),
    Request("/styles.css", "no-cors", "GET", "https:"),
    Request("/about", "navigate", "GET", "https:"),
    Request("/about", "cors", "GET", "https:"),
    Request("/assets/videos/intro.mp4", "no-cors", "GET", "https:"),
    Request("/api/feedback", "cors", "POST", "https:"),
    Request("/popup.html", "no-cors", "GET", "chrome-extension:") }

Init ==
  /\ InitActivated
  /\ storageFaulty = FALSE

Next ==
  \E h \in Handlers :
    \/ \E req \in Requests : FetchEvent(h, req)
    \/ HandlerStep(h)

Spec == Init /\ [][Next]_vars

\* The same worker on a storage whose writes may be rejected.
InitFaulty ==
  /\ InitActivated
  /\ storageFaulty = TRUE

\* Requests the listener answers, one per path of Requests: a static and a
\* default navigation, a static and a dynamic subresource.
InterceptedRequests ==
  { Request("/index.html", "navigate", "GET", "https:"),
    Request("/styles.css", "no-cors", "GET", "https:"),
    Request("/about", "navigate", "GET", "https:"),
    Request("/assets/videos/intro.mp4", "no-cors", "GET", "https:") }

NextFaulty ==
  \E h \in Handlers :
    \/ \E req \in InterceptedRequests : FetchEvent(h, req)
    \/ HandlerStep(h)

SpecFaulty == InitFaulty /\ [][NextFaulty]_vars

(***************************************************************************)
(* SpecClassify: one fetch event over a wide set of paths                  *)
(***************************************************************************)
ClassifyPaths ==
  { "/", "/index.html", "/student-dashboard.html", "/styles.css", "/script.js",
    "/logo-removebg-preview.png", "/a.jpg", "/a.jpeg", "/a.gif", "/favicon.ico",
    "/a.svg", "/f.woff", "/f.woff2", "/f.ttf", "/f.eot", "/manifest.json",
    "/assets/videos/intro.mp4", "/assets/videos/clip.html", "/assets/video/x",
    "/api/lessons", "/api/", "/api", "/api/app.js", "/v2/api/x", "/apiary/",
    "/capital", "/user-content/7", "/my/user-content", "/about", "/script.jsx",
    "/styles.CSS", "/html", "/css" }
ClassifyRequests ==
  { Request(p, m, "GET", "https:") : p \in ClassifyPaths, m \in {"navigate", "no-cors"} }

\* The first fetch event the activated worker receives.
ClassifyEvent(req) ==
  /\ handler[1].pc = "idle"
  /\ FetchEvent(1, req)

NextClassify ==
  \/ \E req \in ClassifyRequests : ClassifyEvent(req)
  \/ HandlerStep(1)

SpecClassify == Init /\ [][NextClassify]_vars

(***************************************************************************)
(* SpecSWR: staleWhileRevalidate(request, DYNAMIC_CACHE) called directly   *)
(* (handleFetch never selects it)                                          *)
(***************************************************************************)
SwrRequests ==
  { Request(p, "cors", "GET", "https:") : p \in {"/api/lessons", "/api/progress"} }

CallStaleWhileRevalidate(h, req) ==
  /\ phase = "activated"
  /\ fetches < MaxFetches
  /\ Free(h)
  /\ fetches' = fetches + 1
  /\ handler' = [handler EXCEPT ![h] =
       Called(req, Policy("staleWhileRevalidate", DYNAMIC_CACHE), FALSE)]
  /\ bg' = [bg EXCEPT ![h] = IdleBackground]
  /\ UNCHANGED <<caches, lifecycleVars, completedOk, storageFaulty, syncVars>>

NextSWR ==
  \E h \in Handlers :
    \/ \E req \in SwrRequests : CallStaleWhileRevalidate(h, req)
    \/ StrategyOpen(h)
    \/ SwrMatch(h)
    \/ BgFetch(h)
    \/ BgPut(h)

SpecSWR == Init /\ [][NextSWR]_vars

(***************************************************************************)
(* Background sync of feedback submissions                                 *)
(***************************************************************************)
SYNC_TAG == "feedback-submission"
SyncTags == {SYNC_TAG, "content-refresh"}

\* The store of pending submissions.  The worker only declares its two
\* accessors ("Implement based on your storage solution"); the store is an
\* ordered sequence of submissions keyed by id, a submission standing for
\* its id.
enqueue(q, id) == Append(q, id)
getPendingSubmissions(q) == q
removePendingSubmission(q, id) == SelectSeq(q, LAMBDA x : x # id)
InQueue(q, id) == \E i \in DOMAIN q : q[i] = id

\* submitFeedback: fetch('/api/feedback', {method: 'POST', ...}) resolves
\* with whatever response the backend gives, or throws.
SubmitOutcomes ==
  { Response(201, "Created"), Response(500, "Internal Server Error"), Throw }

Logged(rec, id, out, removal) ==
  [rec EXCEPT !.log = Append(@, [id |-> id, out |-> out, removal |-> removal])]
Relogged(rec, removal) ==
  [rec EXCEPT !.log = [@ EXCEPT ![Len(@)].removal = removal]]

\* for (const submission of pendingSubmissions): the next iteration calls
\* submitFeedback and suspends on it; past the last one the function ends.
NextSubmission(rec) ==
  IF rec.idx < Len(rec.pending)
  THEN [rec EXCEPT !.idx = @ + 1, !.pc = "submit"]
  ELSE [rec EXCEPT !.pc = "done"]

\* The sync listener: only the tag 'feedback-submission' starts
\* syncFeedbackSubmissions, which runs to await getPendingSubmissions().
Dispatched(tag) ==
  IF tag = SYNC_TAG
  THEN [IdleSync EXCEPT !.pc = "get", !.tag = tag]
  ELSE [IdleSync EXCEPT !.pc = "done", !.tag = tag]

\* After await getPendingSubmissions(): the loop starts on what it returned;
\* a rejection is caught by the outer catch.
AfterGetPending(rec, po, q) ==
  IF po = "ok" THEN NextSubmission([rec EXCEPT !.pending = getPendingSubmissions(q)])
  ELSE [rec EXCEPT !.pc = "done"]

\* Mutant of AfterSubmit: the submission is removed whatever submitFeedback did.
AfterSubmit_RemoveAlways(rec, out) ==
  [Logged(rec, rec.pending[rec.idx], out, "awaited") EXCEPT !.pc = "remove"]

\* After await submitFeedback(submission): any response goes on to
\* removePendingSubmission; a thrown fetch is caught by the inner catch and
\* the loop continues.
AfterSubmit(rec, out) ==
  IF out.kind = "throw"
  THEN NextSubmission(Logged(rec, rec.pending[rec.idx], out, "none"))
  ELSE [Logged(rec, rec.pending[rec.idx], out, "awaited") EXCEPT !.pc = "remove"]

\* After await removePendingSubmission(submission.id): the loop continues,
\* also when the removal rejected (inner catch).
AfterRemove(rec, ro, q) ==
  NextSubmission(Relogged(rec,
    IF ro # "ok" THEN "failed"
    ELSE IF InQueue(q, rec.pending[rec.idx]) THEN "removed" ELSE "absent"))

\* The number of submitFeedback calls that have settled so far.
RECURSIVE SettledUpTo(_, _)
SettledUpTo(sy, n) == IF n = 0 THEN 0 ELSE Len(sy[n].log) + SettledUpTo(sy, n - 1)
Settled(sy) == SettledUpTo(sy, MaxSyncEvents)

\* The page stores a submission it could not send.
Enqueue ==
  /\ phase = "activated"
  /\ nextId <= MaxQueue
  /\ queue' = enqueue(queue, nextId)
  /\ nextId' = nextId + 1
  /\ UNCHANGED <<caches, lifecycleVars, fetchVars, storageFaulty, sync>>

SyncEvent(tag) ==
  /\ phase = "activated"
  /\ \E e \in SyncEvents :
       /\ sync[e].pc = "idle"
       /\ \A d \in SyncEvents : d < e => sync[d].pc # "idle"
       /\ sync' = [sync EXCEPT ![e] =
            [Dispatched(tag) EXCEPT !.after = { d \in SyncEvents : sync[d].pc = "done" }]]
  /\ UNCHANGED <<caches, lifecycleVars, fetchVars, storageFaulty, queue, nextId>>

SyncGet(e) ==
  /\ sync[e].pc = "get"
  /\ \E po \in PutOutcomes :
       sync' = [sync EXCEPT ![e] = AfterGetPending(@, po, queue)]
  /\ UNCHANGED <<caches, lifecycleVars, fetchVars, storageFaulty, queue, nextId>>

\* await submitFeedback(submission) settles (at most MaxDeliveries requests
\* are answered; later ones stay in flight).
SyncSubmit(e) ==
  /\ sync[e].pc = "submit"
  /\ Settled(sync) < MaxDeliveries
  /\ \E out \in SubmitOutcomes :
       sync' = [sync EXCEPT ![e] = AfterSubmit(@, out)]
  /\ UNCHANGED <<caches, lifecycleVars, fetchVars, storageFaulty, queue, nextId>>

SyncRemove(e) ==
  /\ sync[e].pc = "remove"
  /\ \E ro \in PutOutcomes :
       /\ sync' = [sync EXCEPT ![e] = AfterRemove(@, ro, queue)]
       /\ queue' = IF ro = "ok"
                   THEN removePendingSubmission(queue, sync[e].pending[sync[e].idx])
                   ELSE queue
  /\ UNCHANGED <<caches, lifecycleVars, fetchVars, storageFaulty, nextId>>

\* The activated worker receiving sync events while the page enqueues.
InitSyncWorker ==
  /\ Init
  /\ caches = << [name |-> STATIC_CACHE, entries |-> EmptyEntries],
                 [name |-> DYNAMIC_CACHE, entries |-> EmptyEntries] >>

NextSync ==
  \/ Enqueue
  \/ \E tag \in SyncTags : SyncEvent(tag)
  \/ \E e \in SyncEvents : SyncGet(e)
  \/ \E e \in SyncEvents : SyncSubmit(e)
  \/ \E e \in SyncEvents : SyncRemove(e)

SpecSync == InitSyncWorker /\ [][NextSync]_vars

(***************************************************************************)
(* Claims about installation and activation                                *)
(***************************************************************************)
InstallCompleted == phase \in {"installed", "activating", "activated"}
FetchedOk(i) == IsResponse(assetNet[i]) /\ Ok(assetNet[i])

\* C8: after the activate handler completes, the deleted partitions are
\* exactly those whose name starts with 'nabha-' and is neither current
\* partition; every other partition, and both current partitions, are still
\* there with the entries (and the order) they had.
C8_CleanupExact ==
  phase = "activated" =>
    /\ caches = SelectSeq(preActivate,
                  LAMBDA c : ~(StartsWith(c.name, "nabha-")
                               /\ c.name \notin {STATIC_CACHE, DYNAMIC_CACHE}))
    /\ {STATIC_CACHE, DYNAMIC_CACHE} \subseteq CacheNames(caches)

C8_Witness ==
  /\ phase = "activated"
  /\ "nabha-static-v1.0" \in CacheNames(preActivate)
  /\ "nabha-static-v1.0" \notin CacheNames(caches)
  /\ "other-app-cache" \in CacheNames(caches)
  /\ DOMAIN EntriesOf(caches, STATIC_CACHE) # {}

\* C9 (as claimed): after the activate handler completes, no partition
\* created by an earlier revision of this application's worker still exists.
PriorVersionNames == { CACHE_NAME_V1, "nabha-static-v1.0" }
C9_NoPriorVersionPartition ==
  phase = "activated" => CacheNames(caches) \cap PriorVersionNames = {}

\* C10: the install step always completes; every asset is attempted whatever
\* happened to the others; afterwards the static partition holds exactly the
\* manifest URLs whose fetch returned a successful response (and holds that
\* response).
C10_PreloadTolerant ==
  /\ phase = "installing" => ENABLED NextLifecycle
  /\ InstallCompleted =>
       /\ \A i \in AssetIdx : assetNet[i] \in NetOutcomes
       /\ DOMAIN EntriesOf(caches, STATIC_CACHE)
            = { Manifest[i] : i \in { j \in AssetIdx : FetchedOk(j) } }
       /\ \A i \in AssetIdx :
            FetchedOk(i) => CacheMatch(caches, STATIC_CACHE, Manifest[i]) = assetNet[i]

C10_Witness ==
  /\ InstallCompleted
  /\ \E i, j, k \in AssetIdx :
       /\ assetNet[i] = Throw
       /\ IsResponse(assetNet[j]) /\ ~Ok(assetNet[j])
       /\ FetchedOk(k)
       /\ i < k
       /\ CacheMatch(caches, STATIC_CACHE, Manifest[k]) = assetNet[k]

(***************************************************************************)
(* Claims about the fetch strategies                                       *)
(***************************************************************************)
Intercepted(h) == handler[h].fn \notin {"none", "passthrough"}
PastMatch(h, matchPcs) == handler[h].pc \notin ({"idle", "open"} \cup matchPcs)
Key(h) == handler[h].req.path

\* C1: every intercepted request ends in a response object, whatever the
\* classification, the cache contents and the network (and put) outcomes: a
\* finished handleFetch holds a response, never undefined, and a handleFetch
\* in flight always has a next step (it never stops short of returning).
C1_AlwaysResponse ==
  \A h \in Handlers :
    /\ (handler[h].pc = "done" /\ Intercepted(h)) => IsResponse(handler[h].result)
    /\ handler[h].pc \notin {"idle", "done"} => ENABLED HandlerStep(h)

C1_Witness ==
  \E h \in Handlers :
    /\ handler[h].pc = "done"
    /\ handler[h].thrown
    /\ handler[h].net = Throw
    /\ handler[h].result = OfflineResponse

\* C2: cacheFirst on a hit returns the entry with no network call; on a miss
\* it makes exactly one network call; and a call that comes after a
\* cacheFirst call for the same request returned a 2xx network response is a
\* hit, served with no network call.
C2_CacheFirst ==
  \A h \in Handlers :
    (handler[h].fn = "cacheFirst" /\ PastMatch(h, {"cf_match"})) =>
      /\ IsResponse(handler[h].cached) =>
           /\ handler[h].calls = 0
           /\ handler[h].pc = "done"
           /\ handler[h].result = handler[h].cached
      /\ ~IsResponse(handler[h].cached) => handler[h].calls = 1
      /\ handler[h].afterOk =>
           /\ IsResponse(handler[h].cached)
           /\ handler[h].calls = 0

C2_Witness ==
  \E h \in Handlers :
    /\ handler[h].fn = "cacheFirst"
    /\ handler[h].afterOk
    /\ handler[h].pc = "done"
    /\ handler[h].calls = 0
    /\ handler[h].result = CacheMatch(caches, STATIC_CACHE, Key(h))
    /\ Key(h) = "/styles.css"

\* C3: networkFirst returns the network's response whenever the network gave
\* one, and a 2xx one is in the partition, replacing what was stored, when
\* the call returns; when the network call fails the stored value is
\* returned if there is one, and otherwise the call fails.
C3_State ==
  \A h \in Handlers :
    handler[h].fn = "networkFirst" =>
      /\ (handler[h].pc = "done" /\ IsResponse(handler[h].net)) =>
           /\ handler[h].result = handler[h].net
           /\ ~handler[h].thrown
           /\ Ok(handler[h].net) => Key(h) \in DOMAIN EntriesOf(caches, DYNAMIC_CACHE)
      /\ (handler[h].net = Throw /\ PastMatch(h, {"nf_fetch", "nf_match"})) =>
           IF IsResponse(handler[h].cached)
           THEN /\ handler[h].pc = "done"
                /\ handler[h].result = handler[h].cached
                /\ ~handler[h].thrown
           ELSE handler[h].thrown

C3_Step ==
  \A h \in Handlers :
    (handler[h].pc = "nf_put" /\ handler'[h].pc = "done") =>
      /\ CacheMatch(caches', DYNAMIC_CACHE, Key(h)) = handler[h].net
      /\ handler'[h].result = handler[h].net

C3_NetworkFirst == []C3_State /\ [][C3_Step]_vars

C3_Witness ==
  \E h1, h2 \in Handlers :
    /\ handler[h1].fn = "networkFirst" /\ handler[h2].fn = "networkFirst"
    /\ handler[h1].pc = "done" /\ handler[h2].pc = "done"
    /\ Key(h1) = Key(h2)
    /\ IsResponse(handler[h1].net) /\ Ok(handler[h1].net)
    /\ IsResponse(handler[h2].net) /\ Ok(handler[h2].net)
    /\ handler[h1].net # handler[h2].net
    /\ CacheMatch(caches, DYNAMIC_CACHE, Key(h2)) = handler[h2].result

\* C4 (as claimed): with a cache entry, once the background network call has
\* resolved and settled, the partition holds the network's value.
C4_PartitionHoldsNetworkValue ==
  \A h \in Handlers :
    (/\ handler[h].fn = "staleWhileRevalidate"
     /\ IsResponse(handler[h].cached)
     /\ bg[h].state = "settled"
     /\ IsResponse(bg[h].net)) =>
      CacheMatch(caches, DYNAMIC_CACHE, Key(h)) = bg[h].net

\* C4 (amended): with a cache entry, staleWhileRevalidate returns the cached
\* value at once, without waiting for the network; a network call is always
\* issued; when that call resolves with a 2xx response, the partition holds
\* the network's value once the write has completed; a non-2xx or failed
\* call leaves the partition as it was.
C4_State ==
  \A h \in Handlers :
    (handler[h].fn = "staleWhileRevalidate" /\ PastMatch(h, {"swr_match"})) =>
      /\ handler[h].calls = 1
      /\ bg[h].state # "idle"
      /\ IsResponse(handler[h].cached) =>
           /\ handler[h].pc = "done"
           /\ handler[h].result = handler[h].cached

C4_Step ==
  \A h \in Handlers :
    /\ (bg[h].state = "putting" /\ bg'[h].state = "settled") =>
         CacheMatch(caches', DYNAMIC_CACHE, Key(h)) = bg[h].net
    /\ (bg[h].state = "fetching" /\ bg'[h].state = "settled") =>
         /\ ~(IsResponse(bg'[h].net) /\ Ok(bg'[h].net))
         /\ caches' = caches
    /\ (bg[h].state = "fetching" /\ bg'[h].state = "putting") =>
         /\ Ok(bg'[h].net)
         /\ caches' = caches

C4_StaleWhileRevalidate == []C4_State /\ [][C4_Step]_vars

C4_Witness ==
  \E h \in Handlers :
    /\ handler[h].fn = "staleWhileRevalidate"
    /\ IsResponse(handler[h].cached)
    /\ handler[h].result = handler[h].cached
    /\ bg[h].state = "settled"
    /\ IsResponse(bg[h].net) /\ Ok(bg[h].net)
    /\ bg[h].net # handler[h].cached
    /\ CacheMatch(caches, DYNAMIC_CACHE, Key(h)) = bg[h].net

\* C5 (as claimed): with no cache entry the caller receives the result of
\* the network fetch, success or failure: when the fetch fails,
\* staleWhileRevalidate fails towards its caller and does not yield a
\* non-response result.
C5_MissPropagatesFailure ==
  \A h \in Handlers :
    (/\ handler[h].fn = "staleWhileRevalidate"
     /\ handler[h].pc = "done"
     /\ ~IsResponse(handler[h].cached)) =>
      IF handler[h].net = Throw
      THEN handler[h].thrown
      ELSE handler[h].result = handler[h].net

\* C6: the strategy and partition handleFetch uses are those of the first
\* matching class of the path, in the order static, dynamic, api, default:
\* cache-first on the static partition for static, network-first on the
\* dynamic partition for dynamic and default, stale-while-revalidate on the
\* dynamic partition for api; nothing but the path decides.
ClaimExtensions ==
  { "css", "js", "png", "jpg", "jpeg", "gif", "ico", "svg", "woff", "woff2",
    "ttf", "eot" }
ClaimClass(path) ==
  IF \/ \E e \in ClaimExtensions : EndsWith(path, "." \o e)
     \/ path = "/"
     \/ EndsWith(path, ".html")
  THEN "static"
  ELSE IF \/ StartsWith(path, "/assets/videos/")
          \/ Includes(path, "api")
          \/ Includes(path, "user-content")
  THEN "dynamic"
  ELSE IF StartsWith(path, "/api/") THEN "api"
  ELSE "default"
ClaimPolicy(class) ==
  CASE class = "static" -> Policy("cacheFirst", STATIC_CACHE)
    [] class = "dynamic" -> Policy("networkFirst", DYNAMIC_CACHE)
    [] class = "api" -> Policy("staleWhileRevalidate", DYNAMIC_CACHE)
    [] class = "default" -> Policy("networkFirst", DYNAMIC_CACHE)

C6_Classification ==
  \A h \in Handlers :
    Intercepted(h) =>
      Policy(handler[h].fn, handler[h].cacheName) = ClaimPolicy(ClaimClass(Key(h)))

C6_Witness ==
  \E h \in Handlers :
    /\ Intercepted(h)
    /\ Key(h) = "/api/lessons"
    /\ handler[h].fn = "networkFirst"
    /\ handler[h].pc = "done"

\* C7 (as claimed): every intercepted GET request whose path begins with
\* '/api/' and is not a static asset is handled by staleWhileRevalidate on
\* the dynamic partition.
C7_ApiServedStaleWhileRevalidate ==
  \A h \in Handlers :
    (/\ Intercepted(h)
     /\ StartsWith(Key(h), "/api/")
     /\ ClaimClass(Key(h)) # "static") =>
      Policy(handler[h].fn, handler[h].cacheName)
        = Policy("staleWhileRevalidate", DYNAMIC_CACHE)

(***************************************************************************)
(* Further claims about installation                                       *)
(***************************************************************************)
\* C11 (as claimed): the succeeded count the install handler computes equals
\* the number of manifest assets actually stored in the static partition
\* (manifest [A, B] with A stored and B's fetch thrown gives succeeded = 1).
StoredAssets ==
  { i \in AssetIdx : Manifest[i] \in DOMAIN EntriesOf(caches, STATIC_CACHE) }
C11_CountMatchesStored ==
  InstallCompleted => successful = << Cardinality(StoredAssets) >>

(***************************************************************************)
(* Further claims about the fetch listener and the strategies              *)
(***************************************************************************)
\* C12: a non-GET request, or one whose scheme is not http/https, passes
\* through: the listener supplies no response for it, makes no network call,
\* and creates, reads and writes no partition; every other request is
\* answered.
NotForWorker(req) == req.method # "GET" \/ req.protocol \notin {"http:", "https:"}
C12_State ==
  \A h \in Handlers :
    handler[h].pc # "idle" =>
      /\ NotForWorker(handler[h].req) <=> handler[h].fn = "passthrough"
      /\ handler[h].fn = "passthrough" =>
           /\ handler[h].pc = "done"
           /\ handler[h].result = Undefined
           /\ handler[h].calls = 0
           /\ bg[h].state = "idle"
C12_Step ==
  \A h \in Handlers :
    /\ (handler'[h] # handler[h] /\ handler'[h].fn = "passthrough") => caches' = caches
    /\ (handler'[h] # handler[h] /\ handler[h].fn = "passthrough") =>
         fetches' = fetches + 1
C12_PassThrough == []C12_State /\ [][C12_Step]_vars

C12_Witness ==
  \E h1, h2 \in Handlers :
    /\ handler[h1].req.method = "POST"
    /\ handler[h1].fn = "passthrough"
    /\ handler[h2].req.protocol = "chrome-extension:"
    /\ handler[h2].fn = "passthrough"
    /\ fetches = 2

\* C13: the offline fallback never raises and resolves in order: for a
\* navigation the root document of the static partition if stored; else an
\* entry stored for the request in any existing partition; else the 503
\* response with error 'Offline'.  So a dynamic request whose fetch threw and
\* that is stored nowhere ends as the stored root document (navigation) or
\* as the 503 response (any other mode, or no root document stored).
RootDocument(cs) == CacheMatch(cs, STATIC_CACHE, "/index.html")
StoredAnywhere(cs, key) ==
  { cs[i].entries[key] : i \in { j \in DOMAIN cs : key \in DOMAIN cs[j].entries } }
InFallback(h) == handler[h].pc \in {"fb_open", "fb_match", "fb_all"}
C13_State ==
  \A h \in Handlers :
    /\ InFallback(h) => handler[h].thrown /\ ENABLED HandlerStep(h)
    /\ (handler[h].pc = "done" /\ handler[h].thrown) =>
         /\ IsResponse(handler[h].result)
         /\ ( /\ handler[h].cacheName = DYNAMIC_CACHE
              /\ handler[h].net = Throw
              /\ StoredAnywhere(caches, Key(h)) = {} ) =>
              handler[h].result =
                IF /\ handler[h].req.mode = "navigate"
                   /\ IsResponse(RootDocument(preActivate))
                THEN RootDocument(preActivate)
                ELSE IF /\ handler[h].req.mode = "navigate"
                        /\ IsResponse(RootDocument(caches))
                     THEN handler[h].result
                     ELSE OfflineResponse
C13_Step ==
  \A h \in Handlers :
    LET old == handler[h]
        new == handler'[h]
    IN /\ (old.pc \notin {"idle", "done"} /\ ~old.thrown /\ new.thrown) =>
            new.pc = IF old.req.mode = "navigate" THEN "fb_open" ELSE "fb_all"
       /\ (old.pc = "fb_open" /\ new # old) => new.pc = "fb_match"
       /\ (old.pc = "fb_match" /\ new # old) =>
            IF IsResponse(RootDocument(caches))
            THEN new.pc = "done" /\ new.result = RootDocument(caches)
            ELSE new.pc = "fb_all"
       /\ (old.pc = "fb_all" /\ new # old) =>
            /\ new.pc = "done"
            /\ IF StoredAnywhere(caches, old.req.path) # {}
               THEN new.result \in StoredAnywhere(caches, old.req.path)
               ELSE new.result = OfflineResponse
C13_OfflineFallback == []C13_State /\ [][C13_Step]_vars

C13_Witness ==
  \E h1, h2 \in Handlers :
    /\ handler[h1].pc = "done" /\ handler[h1].thrown
    /\ handler[h1].req = Request("/about", "navigate", "GET", "https:")
    /\ handler[h1].result = RootDocument(caches)
    /\ handler[h2].pc = "done" /\ handler[h2].thrown
    /\ handler[h2].req = Request("/about", "cors", "GET", "https:")
    /\ handler[h2].result = OfflineResponse

\* A fallback that found the request in a partition of another name.
C13_WitnessAnyPartition ==
  \E h \in Handlers :
    /\ handler[h].pc = "done" /\ handler[h].thrown
    /\ handler[h].req.path = "/index.html"
    /\ ~IsResponse(RootDocument(caches))
    /\ handler[h].result = Response(200, "old")

\* C18: a partition is only refreshed by a successful network response:
\* every entry of the static and dynamic partitions is a 2xx response; a
\* step that changes one of them is the put of one writer (preload,
\* cacheFirst, networkFirst, background update) storing the 2xx response of
\* its own fetch under its own key; and the step in which a fetch settles,
\* failed or not, changes no partition.
OwnPartitions == {STATIC_CACHE, DYNAMIC_CACHE}
Writers ==
  { [name |-> handler[h].cacheName, key |-> handler[h].req.path, resp |-> handler[h].net] :
      h \in { k \in Handlers : handler[k].pc \in {"cf_put", "nf_put"} } }
  \cup
  { [name |-> handler[h].cacheName, key |-> handler[h].req.path, resp |-> bg[h].net] :
      h \in { k \in Handlers : bg[k].state = "putting" } }
  \cup
  { [name |-> STATIC_CACHE, key |-> Manifest[i], resp |-> assetNet[i]] :
      i \in { k \in AssetIdx : assetPc[k] = "put" } }
C18_State ==
  \A name \in OwnPartitions :
    \A key \in DOMAIN EntriesOf(caches, name) :
      /\ IsResponse(EntriesOf(caches, name)[key])
      /\ Ok(EntriesOf(caches, name)[key])
C18_Step ==
  /\ \A name \in OwnPartitions :
       (/\ name \in CacheNames(caches) /\ name \in CacheNames(caches')
        /\ EntriesOf(caches', name) # EntriesOf(caches, name)) =>
         \E w \in Writers :
           /\ w.name = name
           /\ IsResponse(w.resp) /\ Ok(w.resp)
           /\ EntriesOf(caches', name) = PutEntry(EntriesOf(caches, name), w.key, w.resp)
  /\ \A h \in Handlers :
       (handler[h].pc \in {"cf_fetch", "nf_fetch"} /\ handler'[h] # handler[h]) =>
         caches' = caches
  /\ (bg' # bg /\ \E h \in Handlers : bg[h].state = "fetching" /\ bg'[h] # bg[h]) =>
       caches' = caches
  /\ assetNet' # assetNet => caches' = caches
C18_OnlyOkStored == []C18_State /\ [][C18_Step]_vars

\* A 404 answered while the partition holds a 200 for the same request.
C18_Witness ==
  \E h \in Handlers :
    /\ handler[h].pc = "done"
    /\ IsResponse(handler[h].net) /\ ~Ok(handler[h].net)
    /\ IsResponse(CacheMatch(caches, handler[h].cacheName, Key(h)))
    /\ Ok(CacheMatch(caches, handler[h].cacheName, Key(h)))

\* C19: handlers interleaved on the same key are last-writer-wins without
\* corruption: a handler that fetched and stored returns the response of its
\* own network call; the put that completes leaves, under that key, exactly
\* the response of the handler it belongs to and touches no other entry; so
\* once two such handlers have settled the single entry under the key is the
\* response of one of them, the one whose put completed last.
Stored(h) ==
  /\ handler[h].pc = "done"
  /\ handler[h].fn \in {"cacheFirst", "networkFirst"}
  /\ ~handler[h].thrown
  /\ ~IsResponse(handler[h].cached)
  /\ IsResponse(handler[h].net) /\ Ok(handler[h].net)
C19_State ==
  \A h1, h2 \in Handlers :
    (/\ h1 # h2 /\ Stored(h1) /\ Stored(h2)
     /\ Key(h1) = Key(h2) /\ handler[h1].cacheName = handler[h2].cacheName) =>
      /\ handler[h1].result = handler[h1].net
      /\ handler[h2].result = handler[h2].net
      /\ CacheMatch(caches, handler[h1].cacheName, Key(h1))
           \in { handler[h].net :
                   h \in { k \in Handlers : /\ Stored(k) /\ Key(k) = Key(h1)
                                            /\ handler[k].cacheName = handler[h1].cacheName } }
C19_Step ==
  \A h \in Handlers :
    (handler[h].pc \in {"cf_put", "nf_put"} /\ Stored(h)') =>
      /\ handler'[h].net = handler[h].net
      /\ CacheMatch(caches', handler[h].cacheName, Key(h)) = handler[h].net
      /\ \A i \in DOMAIN caches :
           /\ caches'[i].name = caches[i].name
           /\ DOMAIN caches'[i].entries \subseteq DOMAIN caches[i].entries \cup {Key(h)}
           /\ \A k \in DOMAIN caches[i].entries :
                (k # Key(h) \/ caches[i].name # handler[h].cacheName) =>
                  /\ k \in DOMAIN caches'[i].entries
                  /\ caches'[i].entries[k] = caches[i].entries[k]
      /\ Len(caches') = Len(caches)
C19_LastWriterWins == []C19_State /\ [][C19_Step]_vars

\* Two handlers of the same request that fetched different responses: the
\* partition holds the second one's, the first still returned its own.
C19_Witness ==
  \E h1, h2 \in Handlers :
    /\ h1 # h2 /\ Stored(h1) /\ Stored(h2)
    /\ Key(h1) = Key(h2) /\ handler[h1].cacheName = handler[h2].cacheName
    /\ handler[h1].fn = "cacheFirst" /\ handler[h2].fn = "cacheFirst"
    /\ handler[h1].net # handler[h2].net
    /\ handler[h1].result = handler[h1].net
    /\ CacheMatch(caches, handler[h2].cacheName, Key(h2)) = handler[h2].net

\* C20 (as claimed): whenever the fetch of a networkFirst call returned a
\* response, the caller receives that response and never an older stored
\* value, also when the write of the response into the partition fails.
C20_NetworkResponseServed ==
  \A h \in Handlers :
    (/\ handler[h].pc = "done"
     /\ handler[h].fn = "networkFirst"
     /\ IsResponse(handler[h].net)) =>
      handler[h].result = handler[h].net

(***************************************************************************)
(* Claims about the background sync of pending submissions                 *)
(***************************************************************************)
Triggered(e) == sync[e].tag = SYNC_TAG
Finished(e) == Triggered(e) /\ sync[e].pc = "done"
Delivered(entry) == IsResponse(entry.out) /\ Ok(entry.out)
LogEntries == UNION { { sync[e].log[i] : i \in DOMAIN sync[e].log } : e \in SyncEvents }
DeliveredIds == { entry.id : entry \in { x \in LogEntries : Delivered(x) } }
FailedIn(e) ==
  { sync[e].log[i].id : i \in { j \in DOMAIN sync[e].log : ~Delivered(sync[e].log[j]) } }
OnlyRun(e) == \A d \in SyncEvents : d # e => ~Triggered(d)
CurrentId(e) == sync[e].pending[sync[e].idx]

C16_Step ==
  \A e \in SyncEvents :
    (/\ sync[e].pc = "submit"
     /\ sync'[e] # sync[e]
     /\ Delivered(sync'[e].log[Len(sync'[e].log)])) =>
      ~(CurrentId(e) \in DeliveredIds /\ ~InQueue(queue, CurrentId(e)))
Repeats(e, id) ==
  \E d \in sync[e].after : Triggered(d) /\ InQueue(sync[d].pending, id)
C17_RepeatStep ==
  \A e \in SyncEvents :
    (/\ sync[e].pc = "remove"
     /\ sync'[e] # sync[e]
     /\ Repeats(e, CurrentId(e))) =>
      queue' = queue
C17_Step ==
  \A e \in SyncEvents :
    sync'[e] # sync[e] =>
      /\ (sync[e].pc = "remove" /\ ~InQueue(queue, CurrentId(e))) =>
           /\ queue' = queue
           /\ sync'[e].pc \in {"submit", "done"}
           /\ sync'[e].log[Len(sync'[e].log)].removal = "absent"
      /\ queue' # queue =>
           /\ sync[e].pc = "remove"
           /\ IsResponse(sync[e].log[Len(sync[e].log)].out)
           /\ sync[e].log[Len(sync[e].log)].id = CurrentId(e)
           /\ InQueue(queue, CurrentId(e))
           /\ queue' = SelectSeq(queue, LAMBDA id : id # CurrentId(e))
      /\ (sync[e].pc = "get" /\ queue = <<>>) => sync'[e].pc = "done"
C17_State ==
  \A e \in SyncEvents :
    (Finished(e) /\ OnlyRun(e) /\ \A i \in DOMAIN sync[e].log : sync[e].log[i].out = Throw) =>
      SelectSeq(queue, LAMBDA id : InQueue(sync[e].pending, id)) = sync[e].pending
C17_WitnessRetry ==
  \E d, e \in SyncEvents :
    /\ d \in sync[e].after /\ Finished(d) /\ Finished(e)
    /\ sync[e].pending # <<>> /\ sync[e].pending = sync[d].pending
    /\ \A i \in DOMAIN sync[e].log : sync[e].log[i].out = Throw
    /\ Len(sync[e].log) = Len(sync[e].pending)
    /\ queue = sync[e].pending

====
